---- MODULE Spec2Model ----
(***************************************************************************)
(* VigilMap analytics core: the brief synthesis cascade (briefs.ts) and    *)
(* the anomaly detector (anomaly.ts).                                      *)
(*                                                                         *)
(* One invocation of generateBrief is modelled as a state machine whose    *)
(* steps are the synchronous stretches between two awaits: the call up to  *)
(* the first fetch, the settling of fetch, the settling of response.json() *)
(* together with the rest of tryModel and the loop's catch/continue, and   *)
(* the expiry of the inter-attempt timer.                                  *)
(*                                                                         *)
(* The pure parts (the cut of the prompt's events, the local summary, the   *)
(* detector and its Welford pass) are each checked as one call on an       *)
(* argument drawn from a bounded family: SpecTop8, SpecSummary, SpecDetect *)
(* and SpecWelford.                                                        *)
(*                                                                         *)
(* The two components that call the core are state machines of their       *)
(* event handlers: the Generate button of IntelBrief with its cooldown     *)
(* (SpecPanel) and the refresh of App (SpecApp).                           *)
(*                                                                         *)
(* A text is a sequence of tokens; a token is one character or one fixed   *)
(* chunk of text (Lit) or a rendered number (Num).                         *)
(***************************************************************************)
EXTENDS Integers, Sequences, FiniteSets, TLC

VARIABLES
  apiKey,    \* import.meta.env.VITE_OPENROUTER_API_KEY
  events,    \* generateBrief's events argument
  pc,        \* start, fetch (awaiting fetch), json (awaiting response.json()),
             \* delay (awaiting the timer), done (returned), raised (threw)
  i,         \* the loop index of generateBrief (0-based, as in the code)
  status,    \* response.status of the current tryModel call
  data,      \* the body read by the latest tryModel call, until the next call
  trace,     \* the requests, their completions and the delays, in order
  inflight,  \* the number of requests issued and not yet completed
  sent,      \* the body of the request of the latest tryModel call
  result,    \* the BriefResult returned
  cancelAt,  \* when the caller signalled cancellation, if it did
  call,      \* one call of a pure function: its name, argument and value
  IntelBrief,  \* the state and refs of the IntelBrief component: loading,
               \* cooldown, cooldownRef (an interval is held), brief (not null)
  rendered,    \* the state as of the component's latest render, which its
               \* buttons and the closure of handleGenerate see
  intervals,   \* the number of live intervals set by startCooldown
  generating,  \* the number of generateBrief calls of the component in flight
  elapsed,     \* whole seconds since the latest accepted click; -1 before it
  lastClick,   \* what became of the latest click: accepted or ignored
  App,         \* the state of the App component: allEvents, loading, errors
  loads,       \* the number of load() calls awaiting Promise.allSettled
  results      \* what the adapters settled with in the latest finished load

panelVars == <<IntelBrief, rendered, intervals, generating, elapsed, lastClick>>
appVars == <<App, loads, results>>

vars ==
  <<apiKey, events, pc, i, status, data, trace, inflight, result, sent, cancelAt, call,
    panelVars, appVars>>

-----------------------------------------------------------------------------
(* Bounds of the model *)

MaxEvents == 2
MaxContentLen == 2
\* Longest event list a prompt is cut from (one more than the cut keeps)
MaxPromptEvents == 9
\* Longest event list a local summary is made of
MaxSummaryEvents == 5
\* Most grid cells of one domain and most events of one of its cells
MaxCells == 8
MaxCount == 5
\* Longest list of counts given to the Welford pass alone
MaxWelfordLen == 5

-----------------------------------------------------------------------------
(* Texts *)

Lit(s) == [k |-> "lit", s |-> s, n |-> 0]
Num(n) == [k |-> "num", s |-> "", n |-> n]

Chars(s) == [j \in DOMAIN s |-> Lit(s[j])]

IsSpace(t) == t.k = "lit" /\ t.s = " "

RECURSIVE TrimStart(_)
TrimStart(s) ==
  IF s = <<>> THEN <<>>
  ELSE IF IsSpace(Head(s)) THEN TrimStart(Tail(s)) ELSE s

RECURSIVE TrimEnd(_)
TrimEnd(s) ==
  IF s = <<>> THEN <<>>
  ELSE IF IsSpace(s[Len(s)]) THEN TrimEnd(SubSeq(s, 1, Len(s) - 1)) ELSE s

Trim_omitted(s) == s

\* String.prototype.trim
Trim(s) == TrimEnd(TrimStart(s))

RECURSIVE Join(_, _)
\* Array.prototype.join over a sequence of texts
Join(parts, sep) ==
  IF parts = <<>> THEN <<>>
  ELSE IF Len(parts) = 1 THEN parts[1]
  ELSE parts[1] \o sep \o Join(Tail(parts), sep)

RECURSIVE SeqsUpTo(_, _)
SeqsUpTo(S, n) ==
  IF n = 0 THEN {<<>>}
  ELSE LET shorter == SeqsUpTo(S, n - 1)
       IN  shorter \cup {Append(s, x) : s \in shorter, x \in S}

-----------------------------------------------------------------------------
(* Program constants *)

DELAY_MS == 2000

MODEL_CASCADE ==
  << "google/gemma-3-12b-it:free",
     "openai/gpt-oss-20b:free",
     "openai/gpt-oss-120b:free",
     "meta-llama/llama-3.2-3b-instruct:free",
     "meta-llama/llama-3.3-70b-instruct:free" >>

NO_KEY_MESSAGE ==
  << Lit("Add VITE_OPENROUTER_API_KEY to .env.local to enable AI briefs."),
     Lit("\n"),
     Lit("Get a free key at openrouter.ai") >>

SEVERITY_ORDER == [info |-> 0, low |-> 1, medium |-> 2, high |-> 3, critical |-> 4]

-----------------------------------------------------------------------------
(* Events *)

\* A coordinate of a location: a whole number of degrees, or not there
NoCoordinate == [def |-> FALSE, deg |-> 0]
Coordinate(deg) == [def |-> TRUE, deg |-> deg]

\* An event whose location has a label, no coordinates and neither region
\* nor country; missing says that the event has no location at all
\* (ev.location is undefined)
Event(id, ts, domain, severity) ==
  [ id        |-> id,
    timestamp |-> ts,
    domain    |-> domain,
    severity  |-> severity,
    title     |-> "title-" \o id,
    location  |-> [label |-> "place-" \o id, lat |-> NoCoordinate, lng |-> NoCoordinate,
                   region |-> "", country |-> "", missing |-> FALSE] ]

\* The event e, located at lat and lng degrees
At(e, lat, lng) ==
  [e EXCEPT !.location.lat = Coordinate(lat), !.location.lng = Coordinate(lng)]

\* The event e, in a region of a country
In(e, region, country) ==
  [e EXCEPT !.location.region = region, !.location.country = country]

\* The event e without a location
Unlocated(e) == [e EXCEPT !.location.missing = TRUE]

\* The events an invocation may be given: two domains, an urgent and a
\* non-urgent severity.
BriefEventPool ==
  { Event("a", 1, "climate", "high"),
    Event("b", 2, "conflict", "low") }

BriefEventLists == SeqsUpTo(BriefEventPool, MaxEvents)

-----------------------------------------------------------------------------
(* Array helpers *)

\* Array.prototype.sort(compare) for a comparator that is a consistent
\* ordering; cmp[j][k] is compare(s[j], s[k]). The sort is stable
\* (ECMAScript 2019): an element goes after exactly the elements that compare
\* before it and the equal ones that came earlier.
SortWith(s, cmp) ==
  LET pos == [j \in DOMAIN s |->
                1 + Cardinality({k \in DOMAIN s :
                                   \/ cmp[k][j] < 0
                                   \/ cmp[k][j] = 0 /\ k < j})]
      placed == {<<pos[j], s[j]>> : j \in DOMAIN s}
  IN  [p \in DOMAIN s |-> (CHOOSE x \in placed : x[1] = p)[2]]

\* Array.prototype.slice(0, n)
Slice0(s, n) == SubSeq(s, 1, IF Len(s) < n THEN Len(s) ELSE n)

-----------------------------------------------------------------------------
(* The prompt *)

TOP_N == 8

\* Models that do not accept a system-role message
NO_SYSTEM_ROLE == {"google/gemma-3-12b-it:free", "google/gemma-3-27b-it:free"}

\* new Date(timestamp).getTime(): a timestamp is kept as the number of whole
\* days of its date since the epoch, its time value is in milliseconds.
GetTime(ts) == ts * 86400000

BySeverityThenNewest_severityOnly(a, b) ==
  SEVERITY_ORDER[b.severity] - SEVERITY_ORDER[a.severity]

\* The comparator of the prompt's sort: severity first, newest first inside
\* one severity.
BySeverityThenNewest(a, b) ==
  LET severityDiff == SEVERITY_ORDER[b.severity] - SEVERITY_ORDER[a.severity]
  IN  IF severityDiff # 0 THEN severityDiff
      ELSE GetTime(b.timestamp) - GetTime(a.timestamp)

\* An array is a reference and the items found behind it
Array(ref, items) == [ref |-> ref, items |-> items]
Spread_alias(arr) == arr

\* [...events]: a new array holding the same items
Spread(arr) == Array("copy", arr.items)

\* Array.prototype.sort with the prompt's comparator: it sorts the array it
\* is called on in place and returns that array.
SortForPrompt(arr) ==
  Array(arr.ref,
        SortWith(arr.items,
                 [j \in DOMAIN arr.items |-> [k \in DOMAIN arr.items |->
                    BySeverityThenNewest(arr.items[j], arr.items[k])]]))

\* The three fields an event is cut down to
PromptEntry(e) ==
  [title |-> e.title, severity |-> e.severity, location |-> e.location.label]

\* .map(e => ({title, severity, location}))
PromptEntries(kept) == [p \in DOMAIN kept |-> PromptEntry(kept[p])]

\* top8 of generateBrief
top8(evs) ==
  LET kept == Slice0(SortForPrompt(Spread(Array("caller", evs))).items, TOP_N)
  IN  PromptEntries(kept)

\* The caller's list once top8 has been computed from it
EventsAfterTop8(evs) ==
  LET sorted == SortForPrompt(Spread(Array("caller", evs)))
  IN  IF sorted.ref = "caller" THEN sorted.items ELSE evs

\* JSON.stringify of one prompt entry and of the list of them
EntryJson(e) ==
  << Lit("{\"title\":"), Lit(e.title), Lit(",\"severity\":"), Lit(e.severity),
     Lit(",\"location\":"), Lit(e.location), Lit("}") >>

Stringify(entries) ==
  <<Lit("[")>> \o Join([p \in DOMAIN entries |-> EntryJson(entries[p])], <<Lit(",")>>)
     \o <<Lit("]")>>

\* The context label the caller passes
Context == <<Lit("Global")>>

Message(role, content) == [role |-> role, content |-> content]

SystemContent ==
  << Lit("You are a concise global intelligence analyst. "),
     Lit("Summarize current events in 3-4 sentences. "),
     Lit("Focus on significant patterns, geographic concentrations, and what warrants monitoring. "),
     Lit("Be factual and direct. No bullet points.") >>

UserContent(evs) ==
  << Lit("Summarize these "), Num(Len(top8(evs))), Lit(" active events in ") >>
    \o Context \o <<Lit(": ")>> \o Stringify(top8(evs))

\* messages of generateBrief
Messages(evs) ==
  << Message("system", SystemContent), Message("user", UserContent(evs)) >>

\* Array.prototype.find: the index of the first message of a role, 0 if none
FindRole(msgs, role) ==
  IF \E p \in DOMAIN msgs : msgs[p].role = role
  THEN CHOOSE p \in DOMAIN msgs :
         /\ msgs[p].role = role
         /\ \A q \in 1..(p - 1) : msgs[q].role # role
  ELSE 0

NotSystem(m) == m.role # "system"

normalizeMessages(model, msgs) ==
  IF model \notin NO_SYSTEM_ROLE THEN msgs
  ELSE IF FindRole(msgs, "system") = 0 THEN msgs
  ELSE LET systemMsg == msgs[FindRole(msgs, "system")]
           rest == SelectSeq(msgs, NotSystem)
           firstUser == FindRole(rest, "user")
       IN  IF firstUser = 0 THEN rest
           ELSE [p \in DOMAIN rest |->
                   IF p = firstUser
                   THEN Message(rest[p].role,
                                systemMsg.content \o <<Lit("\n\n")>> \o rest[p].content)
                   ELSE rest[p]]

\* The messages of generateBrief for each event list it may be given
MessagesOf == [evs \in BriefEventLists |-> Messages(evs)]

-----------------------------------------------------------------------------
(* Local fallback summary *)

RECURSIVE DomainEntries(_)
\* Object.entries(domainCounts): one <<domain, count>> per domain, in the
\* order in which the domains were first inserted.
DomainEntries(evs) ==
  IF evs = <<>> THEN <<>>
  ELSE LET before == DomainEntries(SubSeq(evs, 1, Len(evs) - 1))
           d      == evs[Len(evs)].domain
       IN  IF \E j \in DOMAIN before : before[j][1] = d
           THEN [j \in DOMAIN before |->
                   IF before[j][1] = d THEN <<d, before[j][2] + 1>> ELSE before[j]]
           ELSE Append(before, <<d, 1>>)

ByCountDesc_ascending(a, b) == a[2] - b[2]

ByCountDesc(a, b) == b[2] - a[2]
BySeverityDesc_none(a, b) == 0

BySeverityDesc(a, b) == SEVERITY_ORDER[b.severity] - SEVERITY_ORDER[a.severity]

IsUrgent(e) == e.severity = "critical" \/ e.severity = "high"

DomainLine(evs) ==
  LET entries == DomainEntries(evs)
      sorted  == SortWith(entries,
                   [j \in DOMAIN entries |->
                     [k \in DOMAIN entries |-> ByCountDesc(entries[j], entries[k])]])
  IN  Join([j \in DOMAIN sorted |-> <<Num(sorted[j][2]), Lit(" "), Lit(sorted[j][1])>>],
           <<Lit(", ")>>)

Urgent(evs) ==
  LET kept == SelectSeq(evs, IsUrgent)
  IN  Slice0(SortWith(kept,
               [j \in DOMAIN kept |->
                 [k \in DOMAIN kept |-> BySeverityDesc(kept[j], kept[k])]]), 3)

localSummary(evs) ==
  IF Len(evs) = 0 THEN <<Lit("No active events to summarise.")>>
  ELSE LET urgent == Urgent(evs)
           first  == <<Num(Len(evs)), Lit(" active events across ")>>
                       \o DomainLine(evs) \o <<Lit(".")>>
           second == <<Lit("Most significant: ")>>
                       \o Join([j \in DOMAIN urgent |->
                                  <<Lit(urgent[j].title), Lit(" ("),
                                    Lit(urgent[j].location.label), Lit(")")>>],
                               <<Lit("; ")>>)
                       \o <<Lit(".")>>
       IN  Join(IF Len(urgent) > 0 THEN <<first, second>> ELSE <<first>>,
                <<Lit(" ")>>)

\* localSummary tabulated over the event lists an invocation may be given
SummaryOf == [evs \in BriefEventLists |-> localSummary(evs)]

-----------------------------------------------------------------------------
(* Inputs of one invocation: the credential and the provider's answers *)

\* import.meta.env.VITE_OPENROUTER_API_KEY: undefined, or a string
KeyUndefined == [defined |-> FALSE, value |-> <<>>]
KeyOf(s) == [defined |-> TRUE, value |-> Chars(s)]

ApiKeys == { KeyUndefined, KeyOf(<<>>), KeyOf(<<" ">>), KeyOf(<<" ", " ">>),
             KeyOf(<<"s", "k">>) }

\* response.status
Statuses == {200, 401, 403, 429, 500}

\* The generated text choices[0].message.content, when the body has one
Contents == SeqsUpTo({Lit(" "), Lit("a")}, MaxContentLen)

\* A response body: one that response.json() cannot parse, the JSON value
\* null, or an object with or without an error member and with or without
\* choices[0].message.content.
Body(parse, error, hasContent, content) ==
  [parse |-> parse, error |-> error, hasContent |-> hasContent, content |-> content]

NoData == Body("none", FALSE, FALSE, <<>>)

Bodies ==
  { Body("fail", FALSE, FALSE, <<>>), Body("null", FALSE, FALSE, <<>>) }
    \cup { Body("object", e, FALSE, <<>>) : e \in BOOLEAN }
    \cup { Body("object", e, TRUE, c) : e \in BOOLEAN, c \in Contents }

-----------------------------------------------------------------------------
(* tryModel *)

\* What a call of tryModel ends with: the returned text, or a thrown error
\* whose retryable property is true, false or absent.
Return(content) == [kind |-> "return", content |-> content, retryable |-> "undefined"]
Throw(retryable) == [kind |-> "throw", content |-> <<>>, retryable |-> retryable]

\* response.ok
ResponseOk(s) == s >= 200 /\ s <= 299

IsAuthFailure_only401(s) == s = 401

IsAuthFailure(s) == s = 401 \/ s = 403

\* The errors tryModel throws itself, each tagged with its retryable property
AuthError == Throw("false")
RateLimited == Throw("true")
ProviderError == Throw("true")
EmptyResponse_retryable == Throw("true")

EmptyResponse == Throw("false")

\* The errors the runtime throws: response.json() rejecting with a
\* SyntaxError, or a TypeError on reading a property of null. Neither has a
\* retryable property.
RuntimeError_retryable == Throw("true")

RuntimeError == Throw("undefined")

\* The part of tryModel that follows the two awaits, given the status and
\* the body read by response.json().
tryModel(s, body) ==
  IF body.parse = "fail" THEN RuntimeError
  ELSE IF IsAuthFailure(s)
       THEN IF body.parse = "null" THEN RuntimeError ELSE AuthError
  ELSE IF s = 429 THEN RateLimited
  ELSE IF body.parse = "null" THEN RuntimeError
  ELSE IF ~ResponseOk(s) \/ body.error THEN ProviderError
  ELSE LET content == Trim(body.content)
       IN  IF ~body.hasContent \/ content = <<>>
           THEN EmptyResponse
           ELSE Return(content)

-----------------------------------------------------------------------------
(* generateBrief *)

KeyUsable_untrimmed(key) == key.defined /\ key.value # <<>>

\* !apiKey || apiKey.trim() === ''
KeyUsable(key) == key.defined /\ key.value # <<>> /\ Trim(key.value) # <<>>

\* A handler that lets an error without a retryable property escape
Caught_taggedOnly(err) == err.retryable # "undefined"

\* catch (err): the clause catches whatever the try block throws
Caught(err) == TRUE

\* (err as { retryable?: boolean }).retryable, tested for truthiness
IsRetryable(err) == err.retryable = "true"

\* The for statement's condition and increment
LoopCondition(idx) == idx < Len(MODEL_CASCADE)
NextIndex_same(idx) == idx

NextIndex(idx) == idx + 1

NeedsDelay_offByOne(idx) == idx > 1

\* if (i > 0) await delay(DELAY_MS)
NeedsDelay(idx) == idx > 0

\* What the invocation has done so far, in order
Request(model) == [ev |-> "request", model |-> model, status |-> 0, ms |-> 0]
Response(model, s) == [ev |-> "response", model |-> model, status |-> s, ms |-> 0]
Failed(model) == [ev |-> "failed", model |-> model, status |-> 0, ms |-> 0]
Delay(ms) == [ev |-> "delay", model |-> "", status |-> 0, ms |-> ms]

RequestBody_firstModel(model) ==
  [model |-> model, messages |-> normalizeMessages(MODEL_CASCADE[1], MessagesOf[events])]

\* body of tryModel: the model it is called with and the messages shaped
\* for that model
RequestBody(model) ==
  [model |-> model, messages |-> normalizeMessages(model, MessagesOf[events])]

NoBody == [model |-> "", messages |-> <<>>]

NoResult == [brief |-> <<>>, source |-> "none"]
NoCancel == [phase |-> "none", at |-> 0]
NoCall ==
  [op |-> "none", arg |-> <<>>, value |-> <<>>, after |-> <<>>, returned |-> FALSE,
   threw |-> FALSE]

\* Where the invocation stands after a synchronous stretch of generateBrief:
\* at its next await (pc fetch or delay), returned (pc done, with the result)
\* or left by an exception (pc raised).
Stand(p, idx, tr, fl, res) ==
  [pc |-> p, i |-> idx, trace |-> tr, inflight |-> fl, result |-> res,
   sent |-> IF p = "fetch" THEN RequestBody(MODEL_CASCADE[idx + 1]) ELSE sent]

Returned(brief, source, idx, tr, fl) ==
  Stand("done", idx, tr, fl, [brief |-> brief, source |-> source])

\* The loop from its condition at index idx to its next await, or to the
\* return that follows the loop; tr and fl are the trace and the number of
\* requests in flight at that point.
LoopTop(idx, tr, fl) ==
  IF ~LoopCondition(idx)
  THEN Returned(SummaryOf[events], "local", idx, tr, fl)
  ELSE IF NeedsDelay(idx)
  THEN Stand("delay", idx, Append(tr, Delay(DELAY_MS)), fl, result)
  ELSE Stand("fetch", idx, Append(tr, Request(MODEL_CASCADE[idx + 1])), fl + 1, result)

\* The loop body after tryModel has settled with out
AfterTry(out, tr, fl) ==
  IF out.kind = "return" THEN Returned(out.content, "ai", i, tr, fl)
  ELSE IF ~Caught(out) THEN Stand("raised", i, tr, fl, result)
  ELSE IF ~IsRetryable(out) THEN Returned(SummaryOf[events], "local", i, tr, fl)
  ELSE LoopTop(NextIndex(i), tr, fl)

\* The invocation moves to where st says it stands
MoveTo(st) ==
  /\ pc' = st.pc
  /\ i' = st.i
  /\ trace' = st.trace
  /\ inflight' = st.inflight
  /\ result' = st.result
  /\ sent' = st.sent

\* The call, up to its first await or to its early return. The prompt built
\* at lines 227-254 is the same for every attempt; sent is the body of the
\* request of the latest attempt.
Start ==
  /\ pc = "start"
  /\ MoveTo(IF ~KeyUsable(apiKey)
            THEN Returned(NO_KEY_MESSAGE, "local", i, trace, inflight)
            ELSE LoopTop(0, trace, inflight))
  /\ UNCHANGED <<apiKey, events, status, data, cancelAt, call,
                 panelVars, appVars>>

\* fetch resolves with a response of status s; tryModel awaits its body
FetchResolve(s) ==
  /\ pc = "fetch"
  /\ status' = s
  /\ pc' = "json"
  /\ UNCHANGED <<apiKey, events, i, data, trace, inflight, result, sent, cancelAt, call,
                 panelVars, appVars>>

\* fetch rejects: no response (a TypeError, without a retryable property)
FetchReject ==
  /\ pc = "fetch"
  /\ MoveTo(AfterTry(RuntimeError,
                     Append(trace, Failed(MODEL_CASCADE[i + 1])), inflight - 1))
  /\ UNCHANGED <<apiKey, events, status, data, cancelAt, call,
                 panelVars, appVars>>

\* response.json() settles with body b; the rest of tryModel and of the loop
\* body run
JsonSettle(b) ==
  /\ pc = "json"
  /\ data' = b
  /\ MoveTo(AfterTry(tryModel(status, b),
                     Append(trace, Response(MODEL_CASCADE[i + 1], status)), inflight - 1))
  /\ UNCHANGED <<apiKey, events, status, cancelAt, call,
                 panelVars, appVars>>

\* The timer of delay(DELAY_MS) fires; the next tryModel call issues its fetch
DelayElapsed ==
  /\ pc = "delay"
  /\ pc' = "fetch"
  /\ trace' = Append(trace, Request(MODEL_CASCADE[i + 1]))
  /\ inflight' = inflight + 1
  /\ status' = 0
  /\ data' = NoData
  /\ sent' = RequestBody(MODEL_CASCADE[i + 1])
  /\ UNCHANGED <<apiKey, events, i, result, cancelAt, call,
                 panelVars, appVars>>

\* The two components as constructed: the initial values of their state
\* and refs (IntelBrief.tsx lines 52-61, App.tsx lines 145-147), nothing in
\* flight
IntelBriefInitial ==
  [loading |-> FALSE, cooldown |-> 0, cooldownRef |-> FALSE, brief |-> FALSE]

\* What a render shows of the state of IntelBrief
Snapshot(state) ==
  [loading |-> state.loading, cooldown |-> state.cooldown, brief |-> state.brief]

AppInitial == [allEvents |-> <<>>, loading |-> TRUE, errors |-> <<>>]

PanelConstructed ==
  /\ IntelBrief = IntelBriefInitial
  /\ rendered = Snapshot(IntelBriefInitial)
  /\ intervals = 0
  /\ generating = 0
  /\ elapsed = -1
  /\ lastClick = "none"

AppConstructed ==
  /\ App = AppInitial
  /\ loads = 0
  /\ results = <<>>

Init ==
  /\ apiKey \in ApiKeys
  /\ events \in BriefEventLists
  /\ pc = "start"
  /\ i = 0
  /\ status = 0
  /\ data = NoData
  /\ trace = <<>>
  /\ inflight = 0
  /\ result = NoResult
  /\ sent = NoBody
  /\ cancelAt = NoCancel
  /\ call = NoCall
  /\ PanelConstructed
  /\ AppConstructed

Next ==
  \/ Start
  \/ \E s \in Statuses : FetchResolve(s)
  \/ FetchReject
  \/ \E b \in Bodies : JsonSettle(b)
  \/ DelayElapsed

Spec == Init /\ [][Next]_vars

\* Every pending await settles: the timer fires, and every request has an
\* outcome.
FairSpec == Spec /\ WF_vars(Next)

-----------------------------------------------------------------------------
(* External cancellation *)

\* The caller signals cancellation while the invocation is running.
\* generateBrief takes no signal and reads none: the signal changes nothing
\* the invocation reads.
Cancel ==
  /\ pc \in {"delay", "fetch", "json"}
  /\ cancelAt = NoCancel
  /\ cancelAt' = [phase |-> pc, at |-> Len(trace)]
  /\ UNCHANGED <<apiKey, events, pc, i, status, data, trace, inflight, result, sent, call,
                 panelVars, appVars>>

NextCancel ==
  \/ Next
  \/ Cancel

SpecCancel == Init /\ [][NextCancel]_vars

-----------------------------------------------------------------------------
(* Numbers of the anomaly detector *)

\* The detector's arithmetic is modelled exactly: a number is a fraction
\* <<numerator, denominator>> in lowest terms with a positive denominator.
Abs(n) == IF n < 0 THEN -n ELSE n

RECURSIVE Gcd(_, _)
Gcd(a, b) == IF b = 0 THEN a ELSE Gcd(b, a % b)

Q(n, d) ==
  LET s == IF d < 0 THEN -1 ELSE 1
      g == Gcd(Abs(n), Abs(d))
  IN  <<(s * n) \div g, (s * d) \div g>>

Whole(n) == <<n, 1>>
Plus(a, b) == Q(a[1] * b[2] + b[1] * a[2], a[2] * b[2])
Minus(a, b) == Q(a[1] * b[2] - b[1] * a[2], a[2] * b[2])
Times(a, b) == Q(a[1] * b[1], a[2] * b[2])
\* a / b for b other than zero
Over(a, b) == Q(a[1] * b[2], a[2] * b[1])
Less(a, b) == a[1] * b[2] < b[1] * a[2]
Sign(a) == IF a[1] > 0 THEN 1 ELSE IF a[1] < 0 THEN -1 ELSE 0

\* Math.sqrt(q) of a fraction q >= 0 is kept as the number whose square is
\* q, and a quotient by such a root as a sign and a square; 0 / 0 is NaN.
\* A root of zero is only ever divided into zero here: all the values it
\* was computed from equal their mean.
Sqrt(q) == [square |-> q]
NaN == [nan |-> TRUE, sign |-> 0, square |-> Whole(0)]
OverRoot(a, root) ==
  IF root.square = Whole(0) THEN NaN
  ELSE [nan |-> FALSE, sign |-> Sign(a), square |-> Over(Times(a, a), root.square)]

\* root < c and z < c, z >= c for a fraction c > 0; every comparison with
\* NaN is false.
RootLess(root, c) == Less(root.square, Times(c, c))
SignedLess(z, c) == ~z.nan /\ (z.sign <= 0 \/ Less(z.square, Times(c, c)))
SignedAtLeast(z, c) == ~z.nan /\ z.sign > 0 /\ ~Less(z.square, Times(c, c))

\* Math.round(z * 10) / 10, kept as a whole number of tenths: the nearest
\* one, a half going up.
MaxTenths == 200
RoundToTenths(z) ==
  IF z.nan THEN [nan |-> TRUE, tenths |-> 0]
  ELSE LET s == Times(Whole(400), z.square)
       IN  IF z.sign >= 0
           THEN [nan |-> FALSE,
                 tenths |-> CHOOSE r \in 0..MaxTenths :
                              /\ ~Less(s, Whole((2 * r - 1) * (2 * r - 1))) \/ r = 0
                              /\ Less(s, Whole((2 * r + 1) * (2 * r + 1)))]
           ELSE [nan |-> FALSE,
                 tenths |-> - (CHOOSE r \in 0..MaxTenths :
                                 /\ ~Less(Whole((2 * r + 1) * (2 * r + 1)), s)
                                 /\ r = 0 \/ Less(Whole((2 * r - 1) * (2 * r - 1)), s))]

-----------------------------------------------------------------------------
(* The anomaly detector *)

CELL_SIZE_halved == 10 \div 2

CELL_SIZE == 10

Z_ELEVATED == Q(10, 10)
Z_SIGNIFICANT_two == Q(20, 10)

Z_SIGNIFICANT == Q(15, 10)
Z_CRITICAL == Q(25, 10)

MIN_EVENTS_FOR_SIGNAL == 3

DOMAIN_ICONS ==
  [ disaster |-> "volcano", climate |-> "thermometer", health |-> "hospital",
    conflict |-> "crossed swords", economic |-> "money bag",
    labor |-> "raised fist", science |-> "microscope" ]

\* `${row}:${col}` for whole degrees; \div rounds down as Math.floor does
cellKey(lat, lng) ==
  << Num((lat \div CELL_SIZE) * CELL_SIZE), Lit(":"),
     Num((lng \div CELL_SIZE) * CELL_SIZE) >>

cellCentre(key) ==
  [ lat |-> Plus(Whole(key[1].n), Q(CELL_SIZE, 2)),
    lng |-> Plus(Whole(key[3].n), Q(CELL_SIZE, 2)) ]

welfordUpdate(state, value) ==
  LET n      == state.n + 1
      delta  == Minus(value, state.mean)
      mean   == Plus(state.mean, Over(delta, Whole(n)))
      delta2 == Minus(value, mean)
      M2     == Plus(state.M2, Times(delta, delta2))
  IN  [n |-> n, mean |-> mean, M2 |-> M2]

welfordFinalize_sample(state) ==
  IF state.n < 2 THEN [mean |-> state.mean, stddev |-> Sqrt(Whole(0))]
  ELSE [mean |-> state.mean, stddev |-> Sqrt(Over(state.M2, Whole(state.n - 1)))]

welfordFinalize(state) ==
  IF state.n < 2 THEN [mean |-> state.mean, stddev |-> Sqrt(Whole(0))]
  ELSE [mean |-> state.mean, stddev |-> Sqrt(Over(state.M2, Whole(state.n)))]

\* Math.round of a fraction: the nearest whole number, a half going up
Round(q) == (2 * q[1] + q[2]) \div (2 * q[2])

RegionOrCountry_country(e) == e.location.country

\* e.location.region || e.location.country
RegionOrCountry(e) ==
  IF e.location.region # "" THEN e.location.region ELSE e.location.country

RECURSIVE LabelEntries(_)
\* Object.entries(freq): one <<label, count>> per label of the events that
\* have one, in the order in which the labels were first met
LabelEntries(evs) ==
  IF evs = <<>> THEN <<>>
  ELSE LET before == LabelEntries(SubSeq(evs, 1, Len(evs) - 1))
           l      == RegionOrCountry(evs[Len(evs)])
       IN  IF l = "" THEN before
           ELSE IF \E j \in DOMAIN before : before[j][1] = l
           THEN [j \in DOMAIN before |->
                   IF before[j][1] = l THEN <<l, before[j][2] + 1>> ELSE before[j]]
           ELSE Append(before, <<l, 1>>)

regionLabel(evs, cellLat, cellLng) ==
  LET freq == LabelEntries(evs)
  IN  IF Len(freq) > 0
      THEN <<Lit(SortWith(freq, [j \in DOMAIN freq |-> [k \in DOMAIN freq |->
                                   ByCountDesc(freq[j], freq[k])]])[1][1])>>
      ELSE << Num(Abs(Round(cellLat))), Lit(IF Sign(cellLat) >= 0 THEN "°N" ELSE "°S"),
              Lit(" "),
              Num(Abs(Round(cellLng))), Lit(IF Sign(cellLng) >= 0 THEN "°E" ELSE "°W") >>

\* !ev.location?.lat: a coordinate that is missing or zero
Falsy(c) == ~c.def \/ c.deg = 0

ChainThrows_plain(loc) == loc.missing

\* ev.location?.lat does not raise when there is no location
ChainThrows(loc) == FALSE

\* ev.location?.lat and ev.location?.lng: undefined when there is no location
Chained(loc) ==
  IF loc.missing THEN [lat |-> NoCoordinate, lng |-> NoCoordinate]
  ELSE [lat |-> loc.lat, lng |-> loc.lng]

\* e.location.region raises a TypeError when an event has no location
RegionLabelThrows(evs) == \E p \in DOMAIN evs : evs[p].location.missing

RECURSIVE Grouped(_)
\* groups of detectAnomalies: the domains in the order in which they were
\* first met, each with its cells in the order in which they were first met
\* and each cell with its events in the order of the list.
Grouped(evs) ==
  IF evs = <<>> THEN <<>>
  ELSE LET before == Grouped(SubSeq(evs, 1, Len(evs) - 1))
           ev     == evs[Len(evs)]
       IN  IF Falsy(Chained(ev.location).lat) \/ Falsy(Chained(ev.location).lng) THEN before
           ELSE LET key == cellKey(ev.location.lat.deg, ev.location.lng.deg)
                    groups == IF \E d \in DOMAIN before : before[d].domain = ev.domain
                              THEN before
                              ELSE Append(before, [domain |-> ev.domain, cells |-> <<>>])
                    d == CHOOSE d \in DOMAIN groups : groups[d].domain = ev.domain
                    cells == IF \E c \in DOMAIN groups[d].cells : groups[d].cells[c].key = key
                             THEN groups[d].cells
                             ELSE Append(groups[d].cells, [key |-> key, evs |-> <<>>])
                    c == CHOOSE c \in DOMAIN cells : cells[c].key = key
                IN  [groups EXCEPT ![d].cells = [cells EXCEPT ![c].evs = Append(@, ev)]]

RECURSIVE WelfordFold(_)
\* state = welfordUpdate(state, count) for each count of the list in turn,
\* from { n: 0, mean: 0, M2: 0 }
WelfordFold(counts) ==
  IF counts = <<>> THEN [n |-> 0, mean |-> Whole(0), M2 |-> Whole(0)]
  ELSE welfordUpdate(WelfordFold(SubSeq(counts, 1, Len(counts) - 1)),
                     Whole(counts[Len(counts)]))

\* The Welford pass over the counts of a domain's cells
WelfordOver(cells) == WelfordFold([p \in DOMAIN cells |-> Len(cells[p].evs)])

\* if (cells.length < 2) continue
TooFewCells(cells) == Len(cells) < 2

Flat_never(stddev) == FALSE

\* if (stddev < 0.5) continue
Flat(stddev) == RootLess(stddev, Q(5, 10))

TooFewEvents_two(evs) == Len(evs) < 2

\* if (evs.length < MIN_EVENTS_FOR_SIGNAL) continue
TooFewEvents(evs) == Len(evs) < MIN_EVENTS_FOR_SIGNAL

zscoreOf(evs, mean, stddev) == OverRoot(Minus(Whole(Len(evs)), mean), stddev)

SeverityOf(zscore) ==
  IF SignedAtLeast(zscore, Z_CRITICAL) THEN "critical"
  ELSE IF SignedAtLeast(zscore, Z_SIGNIFICANT) THEN "significant"
  ELSE "elevated"

IconOf(domain) ==
  IF domain \in DOMAIN DOMAIN_ICONS THEN DOMAIN_ICONS[domain] ELSE "globe"

\* The signal pushed for a cell of a domain
Signal(domain, cell, zscore) ==
  LET centre == cellCentre(cell.key)
      label  == regionLabel(cell.evs, centre.lat, centre.lng)
  IN  [ id          |-> <<Lit(domain), Lit(":")>> \o cell.key,
        domain      |-> domain,
        label       |-> <<Lit(IconOf(domain)), Lit(" ")>> \o label,
        count       |-> Len(cell.evs),
        zscore      |-> RoundToTenths(zscore),
        severity    |-> SeverityOf(zscore),
        lat         |-> centre.lat,
        lng         |-> centre.lng,
        regionLabel |-> label,
        events      |-> cell.evs ]

\* The signals of one domain, in the order of its cells
DomainSignals(group) ==
  IF TooFewCells(group.cells) THEN <<>>
  ELSE LET stats == welfordFinalize(WelfordOver(group.cells))
           Scored(cell) ==
             /\ ~TooFewEvents(cell.evs)
             /\ ~SignedLess(zscoreOf(cell.evs, stats.mean, stats.stddev), Z_ELEVATED)
           scored == SelectSeq(group.cells, Scored)
       IN  IF Flat(stats.stddev) THEN <<>>
           ELSE [p \in DOMAIN scored |->
                   Signal(group.domain, scored[p],
                          zscoreOf(scored[p].evs, stats.mean, stats.stddev))]

RECURSIVE SignalsOf(_)
\* signals before the final sort: those of each domain, domain after domain
SignalsOf(groups) ==
  IF groups = <<>> THEN <<>>
  ELSE SignalsOf(SubSeq(groups, 1, Len(groups) - 1)) \o DomainSignals(groups[Len(groups)])

sOrder == [critical |-> 2, significant |-> 1, elevated |-> 0]

\* The comparator of the final sort; a difference with NaN is NaN, which the
\* sort takes for 0.
BySeverityThenZscore(a, b) ==
  LET diff == sOrder[b.severity] - sOrder[a.severity]
  IN  IF diff # 0 THEN diff
      ELSE IF a.zscore.nan \/ b.zscore.nan THEN 0
      ELSE b.zscore.tenths - a.zscore.tenths

detectAnomalies(evs) ==
  IF Len(evs) = 0 THEN <<>>
  ELSE LET signals == SignalsOf(Grouped(evs))
       IN  SortWith(signals, [j \in DOMAIN signals |-> [k \in DOMAIN signals |->
                                BySeverityThenZscore(signals[j], signals[k])]])

\* The call raises instead of returning: at the test of line 131, or in
\* regionLabel for a cell that is reported
detectAnomaliesThrows(evs, signals) ==
  \/ \E p \in DOMAIN evs : ChainThrows(evs[p].location)
  \/ \E p \in DOMAIN signals : RegionLabelThrows(signals[p].events)

-----------------------------------------------------------------------------
(* Single calls of the pure parts *)

\* A call of op with argument arg that has not returned yet
Pending(op, arg) ==
  [op |-> op, arg |-> arg, value |-> <<>>, after |-> arg, returned |-> FALSE,
   threw |-> FALSE]

\* No invocation of generateBrief is under way
NoInvocation ==
  /\ apiKey = KeyUndefined
  /\ events = <<>>
  /\ pc = "start"
  /\ i = 0
  /\ status = 0
  /\ data = NoData
  /\ trace = <<>>
  /\ inflight = 0
  /\ result = NoResult
  /\ sent = NoBody
  /\ cancelAt = NoCancel
  /\ PanelConstructed
  /\ AppConstructed

\* The event lists a prompt is cut from: up to one more event than TOP_N
\* keeps, of two severities, two of them of one severity and different dates.
PromptEventPool ==
  { Event("p", 1, "climate", "critical"),
    Event("q", 2, "conflict", "high"),
    Event("r", 3, "conflict", "high") }

PromptEventLists == SeqsUpTo(PromptEventPool, MaxPromptEvents)

InitTop8 ==
  /\ NoInvocation
  /\ call \in {Pending("top8", evs) : evs \in PromptEventLists}

\* Lines 228-239 of generateBrief run on the list
CallTop8 ==
  /\ call.op = "top8"
  /\ ~call.returned
  /\ call' = [call EXCEPT !.value = top8(call.arg),
                          !.after = EventsAfterTop8(call.arg),
                          !.returned = TRUE]
  /\ UNCHANGED <<apiKey, events, pc, i, status, data, trace, inflight, result,
                 sent, cancelAt,
                 panelVars, appVars>>

NextTop8 == CallTop8

SpecTop8 == InitTop8 /\ [][NextTop8]_vars

\* The event lists a local summary is made of: three domains, three urgent
\* events of two severities and one that is not urgent, with and without
\* coordinates.
SummaryEventPool ==
  { Event("c", 1, "climate", "critical"),
    At(Event("h", 2, "conflict", "high"), 48, 35),
    At(Event("l", 3, "conflict", "low"), 0, 20),
    Event("g", 4, "health", "high") }

SummaryEventLists == SeqsUpTo(SummaryEventPool, MaxSummaryEvents)

InitSummary ==
  /\ NoInvocation
  /\ call \in {Pending("localSummary", evs) : evs \in SummaryEventLists}

\* localSummary runs on the list
CallSummary ==
  /\ call.op = "localSummary"
  /\ ~call.returned
  /\ call' = [call EXCEPT !.value = localSummary(call.arg), !.returned = TRUE]
  /\ UNCHANGED <<apiKey, events, pc, i, status, data, trace, inflight, result,
                 sent, cancelAt,
                 panelVars, appVars>>

NextSummary == CallSummary

SpecSummary == InitSummary /\ [][NextSummary]_vars

RECURSIVE Concat(_)
Concat(lists) ==
  IF lists = <<>> THEN <<>> ELSE lists[1] \o Concat(Tail(lists))

\* The events given to the detector. Conflict events lie in up to MaxCells
\* cells on both sides of the equator and of Greenwich: cell 1 holds x
\* events, cell 2 holds y and each further cell holds rest; the first event
\* of a cell lies in its northern half, the others in its southern half; they
\* carry neither region nor country. Health events lie in three cells west
\* of Greenwich holding 1, 1 and w events, and carry a country and, but for
\* the first and the fourth of a cell, a region.
ConflictEvent(k, j) ==
  At(Event("conflict-" \o ToString(k) \o "-" \o ToString(j), j, "conflict", "medium"),
     CELL_SIZE * (k - 4) + (IF j = 1 THEN 7 ELSE 2), CELL_SIZE * (k - 3) + 3)

HealthEvent(k, j) ==
  In(At(Event("health-" \o ToString(k) \o "-" \o ToString(j), j, "health", "high"),
        15, - CELL_SIZE * k - 5),
     IF j \in {1, 4} THEN "" ELSE "Sahel", "Mali")

\* Conflict events with a coordinate of zero (a latitude of zero in the
\* square of the fourth cell, a longitude of zero in the square of the third
\* cell), with no coordinates, and with no location
StrayEvents ==
  << At(Event("stray-1", 1, "conflict", "low"), 0, CELL_SIZE + 3),
     At(Event("stray-2", 2, "conflict", "low"), 2 - CELL_SIZE, 0),
     Event("stray-3", 3, "conflict", "low"),
     Unlocated(Event("stray-4", 4, "conflict", "low")) >>

\* Conflict events at the north pole, on the antimeridian
PolarEvent(j) ==
  At(Event("polar-" \o ToString(j), j, "conflict", "medium"), 90, 180)

PolarEvents(x) == [j \in 1..x |-> PolarEvent(j)]

ConflictCounts(n, x, y, rest) ==
  [k \in 1..n |-> IF k = 1 THEN x ELSE IF k = 2 THEN y ELSE rest]

ConflictEvents(counts) ==
  Concat([k \in DOMAIN counts |-> [j \in 1..counts[k] |-> ConflictEvent(k, j)]])

HealthEvents(w) ==
  IF w = 0 THEN <<>>
  ELSE Concat([k \in 1..3 |-> [j \in 1..(IF k = 3 THEN w ELSE 1) |-> HealthEvent(k, j)]])

DetectorEventLists ==
  { IF variant = "health first"
    THEN HealthEvents(w) \o ConflictEvents(ConflictCounts(n, x, y, rest))
    ELSE IF variant = "strays"
    THEN StrayEvents \o ConflictEvents(ConflictCounts(n, x, y, rest)) \o HealthEvents(w)
    ELSE ConflictEvents(ConflictCounts(n, x, y, rest)) \o HealthEvents(w) :
      n \in 1..MaxCells, x \in 0..MaxCount, y \in 0..MaxCount, rest \in {1, 3},
      w \in 0..MaxCount, variant \in {"conflict first", "health first", "strays"} }
    \cup
  { PolarEvents(x) \o ConflictEvents(ConflictCounts(n, 0, y, rest)) :
      n \in 2..MaxCells, x \in 1..MaxCount, y \in 0..MaxCount, rest \in {1, 3} }

InitDetect ==
  /\ NoInvocation
  /\ call \in {Pending("detectAnomalies", evs) : evs \in DetectorEventLists}

\* detectAnomalies runs on the list
CallDetect ==
  /\ call.op = "detectAnomalies"
  /\ ~call.returned
  /\ ~call.threw
  /\ call' = LET signals == detectAnomalies(call.arg)
              IN  IF detectAnomaliesThrows(call.arg, signals)
                  THEN [call EXCEPT !.threw = TRUE]
                  ELSE [call EXCEPT !.value = signals, !.returned = TRUE]
  /\ UNCHANGED <<apiKey, events, pc, i, status, data, trace, inflight, result,
                 sent, cancelAt,
                 panelVars, appVars>>

NextDetect == CallDetect

SpecDetect == InitDetect /\ [][NextDetect]_vars

\* The lists of cell counts the Welford pass is run on, and the events of a
\* domain whose five cells hold 1, 1, 1, 1 and 10 events
WelfordCounts == {1, 2, 3, 10}

WelfordCountLists == SeqsUpTo(WelfordCounts, MaxWelfordLen) \ {<<>>}

WelfordExample == ConflictEvents(<<1, 1, 1, 1, 10>>)

InitWelford ==
  /\ NoInvocation
  /\ call \in {Pending("welford", counts) : counts \in WelfordCountLists}
               \cup {Pending("detectAnomalies", WelfordExample)}

\* Lines 146-152 of detectAnomalies run on a list of counts
CallWelford ==
  /\ call.op = "welford"
  /\ ~call.returned
  /\ call' = [call EXCEPT !.value = welfordFinalize(WelfordFold(call.arg)),
                          !.returned = TRUE]
  /\ UNCHANGED <<apiKey, events, pc, i, status, data, trace, inflight, result,
                 sent, cancelAt,
                 panelVars, appVars>>

NextWelford == CallWelford \/ CallDetect

SpecWelford == InitWelford /\ [][NextWelford]_vars

-----------------------------------------------------------------------------
(* The IntelBrief component *)

\* Most generateBrief calls of the component in flight, and the second at
\* which the clock of the model stops counting
MaxInFlight == 2
MaxElapsed == 31

COOLDOWN_SEC_half == 30 \div 2

COOLDOWN_SEC == 30

\* const buttonDisabled = loading || cooldown > 0, as rendered
buttonDisabled(seen) == seen.loading \/ seen.cooldown > 0

\* The Refresh button is rendered when the brief is shown, is old and the
\* cooldown is over; old says that the brief is more than ten minutes old
\* (and the body expanded)
RefreshShown(seen, old) == ~seen.loading /\ seen.brief /\ old /\ seen.cooldown = 0

\* if (loading || cooldown > 0) return, with the values handleGenerate closed
\* over at the latest render
GuardReturns(seen) == seen.loading \/ seen.cooldown > 0

\* The click reaches handleGenerate: a disabled button and a button that is
\* not rendered deliver no click
Delivered(button, old) ==
  IF button = "generate" THEN ~buttonDisabled(rendered) ELSE RefreshShown(rendered, old)

Later(seconds) == IF seconds < 0 \/ seconds >= MaxElapsed THEN seconds ELSE seconds + 1

\* startCooldown and the synchronous part of handleGenerate: the state
\* updates of a click are flushed before the next event is handled, so the
\* component is rendered again as part of the click
Accept ==
  /\ generating < MaxInFlight
  /\ IntelBrief' = [IntelBrief EXCEPT !.loading = TRUE,
                                      !.cooldown = COOLDOWN_SEC,
                                      !.cooldownRef = TRUE]
  /\ rendered' = Snapshot(IntelBrief')
  /\ intervals' = (IF IntelBrief.cooldownRef THEN intervals - 1 ELSE intervals) + 1
  /\ generating' = generating + 1
  /\ elapsed' = 0
  /\ lastClick' = "accepted"

\* A click on the Generate / Regenerate button or on the Refresh link
Click(button, old) ==
  /\ IF Delivered(button, old) /\ ~GuardReturns(rendered)
     THEN Accept
     ELSE /\ lastClick' = "ignored"
          /\ UNCHANGED <<IntelBrief, rendered, intervals, generating, elapsed>>
  /\ UNCHANGED <<apiKey, events, pc, i, status, data, trace, inflight, result, sent,
                 cancelAt, call, appVars>>

\* A second passes and the interval fires: the updater given to setCooldown
\* runs on the current state (its clearInterval included)
Tick ==
  /\ intervals > 0
  /\ IF IntelBrief.cooldown <= 1
     THEN /\ IntelBrief' = [IntelBrief EXCEPT !.cooldown = 0, !.cooldownRef = FALSE]
          /\ intervals' = IF IntelBrief.cooldownRef THEN intervals - 1 ELSE intervals
     ELSE /\ IntelBrief' = [IntelBrief EXCEPT !.cooldown = @ - 1]
          /\ UNCHANGED intervals
  /\ elapsed' = Later(elapsed)
  /\ UNCHANGED <<rendered, generating, lastClick>>
  /\ UNCHANGED <<apiKey, events, pc, i, status, data, trace, inflight, result, sent,
                 cancelAt, call, appVars>>

\* A second passes while no interval is live
SecondPasses ==
  /\ intervals = 0
  /\ elapsed >= 0
  /\ elapsed < MaxElapsed
  /\ elapsed' = Later(elapsed)
  /\ UNCHANGED <<IntelBrief, rendered, intervals, generating, lastClick>>
  /\ UNCHANGED <<apiKey, events, pc, i, status, data, trace, inflight, result, sent,
                 cancelAt, call, appVars>>

\* generateBrief resolves and the rest of handleGenerate runs
Complete ==
  /\ generating > 0
  /\ generating' = generating - 1
  /\ IntelBrief' = [IntelBrief EXCEPT !.brief = TRUE, !.loading = FALSE]
  /\ UNCHANGED <<rendered, intervals, elapsed, lastClick>>
  /\ UNCHANGED <<apiKey, events, pc, i, status, data, trace, inflight, result, sent,
                 cancelAt, call, appVars>>

\* The component is rendered with the state that a tick or a completion has
\* changed
Render ==
  /\ rendered # Snapshot(IntelBrief)
  /\ rendered' = Snapshot(IntelBrief)
  /\ UNCHANGED <<IntelBrief, intervals, generating, elapsed, lastClick>>
  /\ UNCHANGED <<apiKey, events, pc, i, status, data, trace, inflight, result, sent,
                 cancelAt, call, appVars>>

InitPanel ==
  /\ NoInvocation
  /\ call = NoCall

NextPanel ==
  \/ \E button \in {"generate", "refresh"}, old \in BOOLEAN : Click(button, old)
  \/ Tick
  \/ SecondPasses
  \/ Complete
  \/ Render

SpecPanel == InitPanel /\ [][NextPanel]_vars

-----------------------------------------------------------------------------
(* The App component *)

\* Most load() calls in flight at once, and the number of adapters of the
\* registry that the model runs (the first ones)
MaxLoads == 2
MaxAdapters == 3

ADAPTERS ==
  << [key |-> "usgs-day",   label |-> "USGS 24h"],
     [key |-> "usgs-week",  label |-> "USGS Significant"],
     [key |-> "nasa-firms", label |-> "NASA FIRMS"],
     [key |-> "noaa",       label |-> "NOAA Alerts"],
     [key |-> "gdelt",      label |-> "GDELT Conflict"],
     [key |-> "who",        label |-> "WHO Outbreaks"] >>

Registry == SubSeq(ADAPTERS, 1, IF MaxAdapters < Len(ADAPTERS) THEN MaxAdapters ELSE Len(ADAPTERS))

\* The event that adapter k returns at place j of its list under the given
\* id; later adapters and later places carry later dates
Fetched(k, j, id) ==
  [Event(id, k + j, "disaster", "low") EXCEPT !.title = ADAPTERS[k].key \o "-" \o ToString(j)]

\* What Promise.allSettled reports of one adapter
Fulfilled(value) == [status |-> "fulfilled", value |-> value]
Rejected == [status |-> "rejected", value |-> <<>>]

\* What adapter k may settle with: a failure, no events, the same id twice,
\* two ids
Settlement(k, how) ==
  IF how = "fails" THEN Rejected
  ELSE IF how = "nothing" THEN Fulfilled(<<>>)
  ELSE IF how = "twice" THEN Fulfilled(<<Fetched(k, 1, "a"), Fetched(k, 2, "a")>>)
  ELSE Fulfilled(<<Fetched(k, 1, "b"), Fetched(k, 2, "a")>>)

SettledResults ==
  { [k \in DOMAIN Registry |-> Settlement(k, how[k])] :
      how \in [DOMAIN Registry -> {"fails", "nothing", "twice", "two"}] }

RECURSIVE KeepFirst(_)
\* The inner loop of mergeEvents over the events of all arrays in turn: an
\* event is kept unless its id was seen
KeepFirst(evs) ==
  IF evs = <<>> THEN <<>>
  ELSE LET before == KeepFirst(SubSeq(evs, 1, Len(evs) - 1))
           ev     == evs[Len(evs)]
       IN  IF \E j \in DOMAIN before : before[j].id = ev.id THEN before
           ELSE Append(before, ev)

mergeEvents(arrays) == KeepFirst(Concat(arrays))

\* new Date(b.timestamp).getTime() - new Date(a.timestamp).getTime()
ByNewest(a, b) == GetTime(b.timestamp) - GetTime(a.timestamp)

\* arrays and errs of load, from the results of Promise.allSettled
ArraysOf(r) ==
  LET fulfilled == SelectSeq([k \in DOMAIN r |-> r[k]], LAMBDA x : x.status = "fulfilled")
  IN  [p \in DOMAIN fulfilled |-> fulfilled[p].value]

ErrsOf(r) ==
  LET failed == SelectSeq([k \in DOMAIN r |-> k], LAMBDA k : r[k].status = "rejected")
  IN  [p \in DOMAIN failed |-> ADAPTERS[failed[p]].label]

\* What the rest of load makes of the results r: merged, sorted, and errs
Refreshed(r) ==
  LET merged == mergeEvents(ArraysOf(r))
  IN  [ allEvents |-> SortWith(merged, [j \in DOMAIN merged |->
                        [k \in DOMAIN merged |-> ByNewest(merged[j], merged[k])]]),
        errs      |-> ErrsOf(r) ]

RefreshedOf == [r \in SettledResults |-> Refreshed(r)]

\* load() up to its await: called when the component mounts and every
\* REFRESH_INTERVAL_MS after that, whether or not an earlier call has
\* finished
Load ==
  /\ loads < MaxLoads
  /\ App' = [App EXCEPT !.loading = TRUE, !.errors = <<>>]
  /\ loads' = loads + 1
  /\ UNCHANGED results
  /\ UNCHANGED <<apiKey, events, pc, i, status, data, trace, inflight, result, sent,
                 cancelAt, call, panelVars>>

\* Promise.allSettled resolves with r for one of the calls in flight, and
\* the rest of load runs
LoadSettle(r) ==
  /\ loads > 0
  /\ App' = [ allEvents |-> RefreshedOf[r].allEvents,
              loading   |-> FALSE,
              errors    |-> IF Len(RefreshedOf[r].errs) > 0
                            THEN RefreshedOf[r].errs ELSE App.errors ]
  /\ loads' = loads - 1
  /\ results' = r
  /\ UNCHANGED <<apiKey, events, pc, i, status, data, trace, inflight, result, sent,
                 cancelAt, call, panelVars>>

InitApp ==
  /\ NoInvocation
  /\ call = NoCall

NextApp ==
  \/ Load
  \/ \E r \in SettledResults : LoadSettle(r)

SpecApp == InitApp /\ [][NextApp]_vars

-----------------------------------------------------------------------------
(* Reading the trace *)

IsRequest(e) == e.ev = "request"
IsDelay(e) == e.ev = "delay"
IsCompletion(e) == e.ev = "response" \/ e.ev = "failed"

Requests == SelectSeq(trace, IsRequest)
Delays == SelectSeq(trace, IsDelay)

\* The place of a model in the cascade
CandidateOf(model) == CHOOSE k \in DOMAIN MODEL_CASCADE : MODEL_CASCADE[k] = model

LastCandidate == Len(MODEL_CASCADE)

\* data is the body of the response logged at trace[k]: that response is the
\* latest one and no later request has been issued.
DataIsOf(k) ==
  /\ trace[k].ev = "response"
  /\ data.parse # "none"
  /\ \A j \in DOMAIN trace : j > k => ~IsCompletion(trace[j]) /\ ~IsRequest(trace[j])

Blank(s) == \A j \in DOMAIN s : s[j] = Lit(" ")

\* A response of the success class: a success status, a body that parses to
\* an object, no provider error payload
IsSuccess(s, body) == s \in 200..299 /\ body.parse = "object" /\ ~body.error

HasText(body) == body.hasContent /\ ~Blank(body.content)

LocalResult == [brief |-> localSummary(events), source |-> "local"]

-----------------------------------------------------------------------------
(* Claims about the cascade *)

\* C1: when an attempt receives HTTP 401 or 403, no request is issued to a
\* later candidate (one request in all when it is the first candidate) and
\* the invocation returns with provenance local.
C1_AuthFailureStopsCascade ==
  \A k \in DOMAIN trace :
    (trace[k].ev = "response" /\ trace[k].status \in {401, 403}) =>
      /\ \A j \in DOMAIN trace : j > k => ~IsRequest(trace[j])
      /\ trace[k].model = MODEL_CASCADE[1] => Len(Requests) = 1
      /\ pc = "done"
      /\ result.source = "local"

\* A 403 received by the third candidate, after which the invocation is over
C1_Witness ==
  /\ pc = "done"
  /\ Len(Requests) = 3
  /\ trace[Len(trace)].ev = "response"
  /\ trace[Len(trace)].status = 403

\* C2: a response to a candidate that is not the last one, with status 429,
\* or with another non-success status other than 401/403 whatever the body,
\* or with a success status and a provider error payload, is followed by the
\* inter-attempt delay and then by the request to the next candidate.
C2_RetryableAdvances ==
  \A k \in DOMAIN trace :
    ( /\ trace[k].ev = "response"
      /\ CandidateOf(trace[k].model) < LastCandidate
      /\ \/ trace[k].status = 429
         \/ trace[k].status \notin (200..299) \cup {401, 403}
         \/ /\ trace[k].status \in 200..299
            /\ DataIsOf(k)
            /\ data.parse = "object"
            /\ data.error )
    => /\ Len(trace) > k
       /\ trace[k + 1] = Delay(2000)
       /\ Len(trace) > k + 1 =>
            trace[k + 2] = Request(MODEL_CASCADE[CandidateOf(trace[k].model) + 1])

\* C3: a response of the success class whose generated text is missing,
\* empty or whitespace-only ends the cascade: nothing follows it and the
\* invocation returns the local summary with provenance local.
C3_EmptyTextStopsCascade ==
  \A k \in DOMAIN trace :
    (DataIsOf(k) /\ IsSuccess(trace[k].status, data) /\ ~HasText(data)) =>
      /\ k = Len(trace)
      /\ pc = "done"
      /\ result = LocalResult

\* The second candidate answers 200 with a whitespace-only text
C3_Witness ==
  /\ pc = "done"
  /\ Len(Requests) = 2
  /\ DataIsOf(Len(trace))
  /\ IsSuccess(trace[Len(trace)].status, data)
  /\ data.hasContent
  /\ data.content = <<Lit(" ")>>
  /\ events # <<>>

\* C4: when every candidate answers HTTP 429, each candidate is requested
\* exactly once, in all as many requests as there are candidates, and the
\* invocation returns the local summary with provenance local.
C4_AllRateLimited ==
  ( /\ pc = "done"
    /\ trace # <<>>
    /\ \A k \in DOMAIN trace :
         IsCompletion(trace[k]) => trace[k].ev = "response" /\ trace[k].status = 429 )
  => /\ Len(Requests) = Len(MODEL_CASCADE)
     /\ \A m \in DOMAIN MODEL_CASCADE : Requests[m].model = MODEL_CASCADE[m]
     /\ result = LocalResult

\* b is c without its leading and trailing whitespace
IsTrimOf(b, c) ==
  /\ b # <<>>
  /\ b[1] # Lit(" ")
  /\ b[Len(b)] # Lit(" ")
  /\ \E a \in 0..Len(c) :
       /\ a + Len(b) <= Len(c)
       /\ Blank(SubSeq(c, 1, a))
       /\ SubSeq(c, a + 1, a + Len(b)) = b
       /\ Blank(SubSeq(c, a + Len(b) + 1, Len(c)))

\* C5: the invocation returns provenance ai exactly when an attempt was
\* answered with a response of the success class carrying a non-blank text;
\* the result is that text trimmed, and nothing (no request, no delay)
\* follows that response, so it is the first such attempt.
C5_AiIffSuccessWithText ==
  /\ (pc = "done" /\ result.source = "ai") =>
        /\ trace # <<>>
        /\ DataIsOf(Len(trace))
        /\ IsSuccess(trace[Len(trace)].status, data)
        /\ HasText(data)
        /\ IsTrimOf(result.brief, data.content)
  /\ \A k \in DOMAIN trace :
       (DataIsOf(k) /\ IsSuccess(trace[k].status, data) /\ HasText(data)) =>
         /\ k = Len(trace)
         /\ pc = "done"
         /\ result.source = "ai"

\* The third candidate answers 200 with a text that has whitespace around it
C5_Witness ==
  /\ pc = "done"
  /\ result.source = "ai"
  /\ Len(Requests) = 3
  /\ data.content = <<Lit(" "), Lit("a")>>
  /\ result.brief = <<Lit("a")>>

\* C6: whatever the events and the providers' answers, the invocation never
\* raises and ends by returning a non-empty text with provenance ai or local.
C6_AlwaysReturns ==
  /\ [](pc # "raised")
  /\ <>[](pc = "done" /\ result.source \in {"ai", "local"} /\ result.brief # <<>>)

\* The second request fails without a response and the invocation is over
C6_Witness ==
  /\ pc = "done"
  /\ Len(Requests) = 2
  /\ trace[Len(trace)].ev = "failed"
  /\ result.brief # <<>>

\* C7: with a credential that is missing, empty or whitespace-only the
\* invocation issues no request, waits for no delay and returns the
\* add-credential message with provenance local.
C7_NoCredentialNoRequest ==
  (pc # "start" /\ (~apiKey.defined \/ Blank(apiKey.value))) =>
    /\ pc = "done"
    /\ trace = <<>>
    /\ inflight = 0
    /\ result = [brief |-> NO_KEY_MESSAGE, source |-> "local"]

\* A whitespace-only credential, with events to summarise
C7_Witness ==
  /\ pc = "done"
  /\ apiKey = KeyOf(<<" ", " ">>)
  /\ Len(events) = 2

\* C8: at most one request is in flight, a request is issued only when every
\* earlier one has completed, and the requests go to the candidates in
\* cascade order, each at most once, so never more than there are candidates.
C8_OneAtATimeInOrder ==
  /\ inflight \in {0, 1}
  /\ Len(Requests) <= Len(MODEL_CASCADE)
  /\ \A m \in DOMAIN Requests : Requests[m].model = MODEL_CASCADE[m]
  /\ \A k \in DOMAIN trace :
       IsRequest(trace[k]) =>
         Len(SelectSeq(SubSeq(trace, 1, k - 1), IsRequest))
           = Len(SelectSeq(SubSeq(trace, 1, k - 1), IsCompletion))

\* The request to the last candidate is in flight
C8_Witness ==
  /\ pc = "fetch"
  /\ inflight = 1
  /\ Len(Requests) = Len(MODEL_CASCADE)

\* C9: the first request follows no delay; every later request follows
\* exactly one delay of 2000 ms, which itself follows the end of the previous
\* attempt; a returned invocation has waited one delay less than it has
\* issued requests (none when it issued none).
C9_OneDelayBetweenAttempts ==
  /\ trace # <<>> => IsRequest(trace[1])
  /\ \A k \in DOMAIN trace :
       /\ (IsRequest(trace[k]) /\ k > 1) =>
            /\ trace[k - 1] = Delay(2000)
            /\ k > 2
            /\ IsCompletion(trace[k - 2])
       /\ IsDelay(trace[k]) =>
            /\ trace[k].ms = 2000
            /\ k > 1
            /\ IsCompletion(trace[k - 1])
  /\ pc = "done" =>
       Len(Delays) = IF Len(Requests) = 0 THEN 0 ELSE Len(Requests) - 1

\* Three requests and two delays
C9_Witness ==
  /\ pc = "done"
  /\ Len(Requests) = 3
  /\ Len(Delays) = 2

\* C10: once cancellation has been signalled during the inter-attempt delay,
\* no further request is issued.
C10_CancelStopsRequests ==
  cancelAt.phase = "delay" =>
    \A k \in DOMAIN trace : k > cancelAt.at => ~IsRequest(trace[k])

\* C11: every request carries messages shaped for the model it goes to: a
\* request to a model without a system role has no system message and one
\* user message whose text is the system instruction followed by the original
\* user content; a request to any other model carries the original system
\* message and user message, whatever models were attempted before it.
C11_MessagesShapedPerAttempt ==
  (Requests # <<>>) =>
    LET instruction == SystemContent
        original == MessagesOf[events][2].content
        text == sent.messages[1].content
    IN  /\ sent.model = Requests[Len(Requests)].model
        /\ IF sent.model \in {"google/gemma-3-12b-it:free", "google/gemma-3-27b-it:free"}
           THEN /\ \A p \in DOMAIN sent.messages : sent.messages[p].role # "system"
                /\ Len(sent.messages) = 1
                /\ sent.messages[1].role = "user"
                /\ Len(text) >= Len(instruction) + Len(original)
                /\ SubSeq(text, 1, Len(instruction)) = instruction
                /\ SubSeq(text, Len(text) - Len(original) + 1, Len(text)) = original
           ELSE sent.messages = << [role |-> "system", content |-> instruction],
                                   [role |-> "user", content |-> original] >>

\* A request to a model with a system role that followed a request to a model
\* without one, for a list of two events
C11_Witness ==
  /\ Len(events) = 2
  /\ Len(Requests) = 2
  /\ Requests[1].model = "google/gemma-3-12b-it:free"
  /\ sent.model = "openai/gpt-oss-20b:free"
  /\ Len(sent.messages) = 2

\* C12: the events put in the prompt are the first min(8, n) events of the
\* list ordered by severity descending (critical > high > medium > low >
\* info) and then by timestamp descending, each cut down to exactly its
\* title, severity and location label; the caller's list keeps its order.
C12_PromptTakesTopEight ==
  (call.op = "top8" /\ call.returned) =>
    LET arg == call.arg
        out == call.value
        Rank == [critical |-> 5, high |-> 4, medium |-> 3, low |-> 2, info |-> 1]
        Given == {arg[p] : p \in DOMAIN arg}
        Src(v) == CHOOSE e \in Given : e.title = v.title
        MayPrecede(a, b) ==
          \/ Rank[a.severity] > Rank[b.severity]
          \/ Rank[a.severity] = Rank[b.severity] /\ a.timestamp >= b.timestamp
        Count(s, title) == Cardinality({p \in DOMAIN s : s[p].title = title})
    IN  /\ Len(out) = IF Len(arg) < 8 THEN Len(arg) ELSE 8
        /\ \A p \in DOMAIN out :
             \E e \in Given :
               out[p] = [title |-> e.title, severity |-> e.severity,
                         location |-> e.location.label]
        /\ \A p, q \in DOMAIN out : p < q => MayPrecede(Src(out[p]), Src(out[q]))
        /\ \A e \in Given :
             /\ Count(out, e.title) <= Count(arg, e.title)
             /\ Count(out, e.title) < Count(arg, e.title) =>
                  \A p \in DOMAIN out : MayPrecede(Src(out[p]), e)
        /\ call.after = arg

\* Nine events given with the oldest of the less severe ones first and the
\* most severe one last: eight are kept, the most severe first.
C12_Witness ==
  /\ call.op = "top8"
  /\ call.returned
  /\ Len(call.arg) = 9
  /\ Len(call.value) = 8
  /\ call.arg[1].title = "title-q"
  /\ call.arg[2].title = "title-r"
  /\ call.arg[9].title = "title-p"
  /\ call.value[1].title = "title-p"
  /\ call.value[2].title = "title-r"

\* Reading a local summary: the domains of the list it was made of, the
\* count and the domain its k-th entry states, and where its first sentence
\* ends.
DomainsOf(evs) == {evs[p].domain : p \in DOMAIN evs}
EntryCount(text, k) == text[4 * k - 1].n
EntryDomain(text, k) == text[4 * k + 1].s
FirstSentenceEnd(evs) == 4 * Cardinality(DomainsOf(evs)) + 2

RECURSIVE SumOfCounts(_, _)
SumOfCounts(text, k) ==
  IF k = 0 THEN 0 ELSE EntryCount(text, k) + SumOfCounts(text, k - 1)

\* C13: the local summary is never empty; for the empty list it is the fixed
\* no-active-events message; otherwise it states the total number of events
\* and one 'count domain' entry per domain present, in descending order of
\* count, the counts being those of the list (events without coordinates
\* included) and adding up to the total.
C13_SummaryCountsDomains ==
  (call.op = "localSummary" /\ call.returned) =>
    LET arg == call.arg
        text == call.value
        n == Cardinality(DomainsOf(arg))
    IN  /\ text # <<>>
        /\ \E p \in DOMAIN text : text[p].k = "num" \/ text[p].s # ""
        /\ arg = <<>> => text = <<[k |-> "lit", s |-> "No active events to summarise.", n |-> 0]>>
        /\ arg # <<>> =>
             /\ Len(text) >= FirstSentenceEnd(arg)
             /\ text[1] = [k |-> "num", s |-> "", n |-> Len(arg)]
             /\ text[2].s = " active events across "
             /\ \A k \in 1..n :
                  /\ text[4 * k - 1].k = "num"
                  /\ text[4 * k].s = " "
                  /\ EntryDomain(text, k) \in DomainsOf(arg)
                  /\ EntryCount(text, k) =
                       Cardinality({p \in DOMAIN arg : arg[p].domain = EntryDomain(text, k)})
                  /\ text[4 * k + 2].s = IF k < n THEN ", " ELSE "."
                  /\ k < n => EntryCount(text, k) >= EntryCount(text, k + 1)
             /\ {EntryDomain(text, k) : k \in 1..n} = DomainsOf(arg)
             /\ SumOfCounts(text, n) = Len(arg)

\* Five events of three domains, the domain met last being the largest, one
\* event without coordinates
C13_Witness ==
  /\ call.op = "localSummary"
  /\ call.returned
  /\ Len(call.arg) = 5
  /\ Cardinality(DomainsOf(call.arg)) = 3
  /\ call.arg[1].domain = "health"
  /\ call.arg[2].domain = "climate"
  /\ ~call.arg[2].location.lat.def
  /\ EntryDomain(call.value, 1) = "conflict"
  /\ EntryCount(call.value, 1) = 3
  /\ EntryCount(call.value, 3) = 1

ClaimCritical(e) == e.severity = "critical"
ClaimHigh(e) == e.severity = "high"

\* C14: the 'Most significant' clause names min(3, u) events, u being the
\* number of critical or high events of the list: the critical ones in the
\* order of the list, then the high ones in the order of the list, cut to
\* three; there is no such clause when u = 0.
C14_MostSignificantNamesTopThree ==
  (call.op = "localSummary" /\ call.returned /\ call.arg # <<>>) =>
    LET arg == call.arg
        text == call.value
        ranked == SelectSeq(arg, ClaimCritical) \o SelectSeq(arg, ClaimHigh)
        m == IF Len(ranked) < 3 THEN Len(ranked) ELSE 3
        b == FirstSentenceEnd(arg)
    IN  IF m = 0
        THEN /\ Len(text) = b
             /\ \A p \in DOMAIN text : text[p].s # "Most significant: "
        ELSE /\ Len(text) = b + 2 + 5 * m
             /\ text[b + 1].s = " "
             /\ text[b + 2].s = "Most significant: "
             /\ \A k \in 1..m :
                  /\ text[b + 5 * k - 2].s = ranked[k].title
                  /\ text[b + 5 * k - 1].s = " ("
                  /\ text[b + 5 * k].s = ranked[k].location.label
                  /\ text[b + 5 * k + 1].s = ")"
                  /\ text[b + 5 * k + 2].s = IF k < m THEN "; " ELSE "."
                  /\ ranked[k].severity \in {"critical", "high"}

\* Four urgent events, the critical one given last and two different high
\* ones before it: the critical one is named first, then the two high ones
\* in the order given, and the fourth is not named.
C14_Witness ==
  /\ call.op = "localSummary"
  /\ call.returned
  /\ Len(call.arg) = 5
  /\ call.arg[1].title = "title-g"
  /\ call.arg[2].title = "title-l"
  /\ call.arg[3].title = "title-h"
  /\ call.arg[4].title = "title-g"
  /\ call.arg[5].title = "title-c"
  /\ call.value[FirstSentenceEnd(call.arg) + 3].s = "title-c"
  /\ call.value[FirstSentenceEnd(call.arg) + 8].s = "title-g"
  /\ call.value[FirstSentenceEnd(call.arg) + 13].s = "title-h"
  /\ Len(call.value) = FirstSentenceEnd(call.arg) + 17

\* A list without critical or high events has no such clause
C14_WitnessNoClause ==
  /\ call.op = "localSummary"
  /\ call.returned
  /\ Len(call.arg) = 2
  /\ \A p \in DOMAIN call.arg : call.arg[p].severity = "low"

\* Reading the detector's argument and value. An event counts as located
\* when it has a location with a latitude and a longitude other than zero;
\* its grid cell is the 10-degree square it lies in. The census of a domain
\* gives, for each of its populated cells, the number of its located events
\* there.
DetectReturned == call.op = "detectAnomalies" /\ call.returned
DomainsGiven == {call.arg[p].domain : p \in DOMAIN call.arg}
LocatedOf(d) ==
  {p \in DOMAIN call.arg :
     /\ call.arg[p].domain = d
     /\ ~call.arg[p].location.missing
     /\ call.arg[p].location.lat.def /\ call.arg[p].location.lat.deg # 0
     /\ call.arg[p].location.lng.def /\ call.arg[p].location.lng.deg # 0}
GridCell(p) ==
  << (call.arg[p].location.lat.deg \div 10) * 10,
     (call.arg[p].location.lng.deg \div 10) * 10 >>
CensusFrom(located) ==
  {<<c, Cardinality({p \in located : GridCell(p) = c})>> : c \in {GridCell(p) : p \in located}}
Census(d) == CensusFrom(LocatedOf(d))
Counts(census) == {e[2] : e \in census}

RECURSIVE SumOfSquares(_)
SumOfSquares(census) ==
  IF census = {} THEN 0
  ELSE LET e == CHOOSE e \in census : TRUE
       IN  e[2] * e[2] + SumOfSquares(census \ {e})

RECURSIVE SumOf(_)
SumOf(census) ==
  IF census = {} THEN 0
  ELSE LET e == CHOOSE e \in census : TRUE
       IN  e[2] + SumOf(census \ {e})

\* For n cells holding S events in all, SS being the sum of the squares of
\* their counts, the population variance of the counts is
\* (n*SS - S*S) / (n*n) and the z-score of a cell of c events is
\* (n*c - S) / sqrt(n*SS - S*S). Spread is n*SS - S*S and Above is n*c - S.
SpreadOf(census) ==
  Cardinality(census) * SumOfSquares(census) - SumOf(census) * SumOf(census)
AboveOf(census, c) == Cardinality(census) * c - SumOf(census)
Moments(census) == [n |-> Cardinality(census), spread |-> SpreadOf(census), sum |-> SumOf(census)]
\* stddev >= 1/2
StddevAtLeastHalf(m) == 4 * m.spread >= m.n * m.n
\* z >= num / den, for the cell of c events and a positive num / den
RawAtLeast(m, c, num, den) ==
  /\ m.n * c - m.sum > 0
  /\ den * den * (m.n * c - m.sum) * (m.n * c - m.sum) >= num * num * m.spread

CellOfSignal(s) == <<s.id[3].n, s.id[5].n>>
SignalsFor(d) == {p \in DOMAIN call.value : call.value[p].domain = d}
SignalsAt(d, c) == {p \in SignalsFor(d) : CellOfSignal(call.value[p]) = c}
\* What the value says of each signal: its place, domain, cell, tier and count
Reported ==
  {[at |-> p, domain |-> call.value[p].domain, cell |-> CellOfSignal(call.value[p]),
    severity |-> call.value[p].severity, count |-> call.value[p].count,
    events |-> Len(call.value[p].events)] : p \in DOMAIN call.value}

\* The square of a signal's raw z-score, as a numerator and a denominator
RawSquare(r) ==
  LET census == Census(r.domain)
      above == AboveOf(census, (CHOOSE e \in census : e[1] = r.cell)[2])
  IN  [num |-> above * above, den |-> SpreadOf(census)]

\* C15: the signals are ordered by tier (critical, significant, elevated) and
\* inside one tier by raw, unrounded z-score descending.
C15_OrderedByTierThenRawZ ==
  DetectReturned =>
    \A a, b \in Reported :
      a.at < b.at =>
        LET Tier == [critical |-> 3, significant |-> 2, elevated |-> 1]
        IN  \/ Tier[a.severity] > Tier[b.severity]
            \/ /\ Tier[a.severity] = Tier[b.severity]
               /\ RawSquare(a).num * RawSquare(b).den >= RawSquare(b).num * RawSquare(a).den

\* C16: a domain whose populated cells hold counts that differ by at most 1,
\* however many cells there are, gives no signal.
C16_CountsWithinOneGiveNoSignal ==
  DetectReturned =>
    \A d \in DomainsGiven :
      (/\ Cardinality(Census(d)) >= 2
       /\ \A c1, c2 \in Counts(Census(d)) : c1 - c2 <= 1)
        => SignalsFor(d) = {}

\* C17: a domain all of whose populated cells hold the same number of events
\* gives no signal.
C17_EqualCountsGiveNoSignal ==
  DetectReturned =>
    \A d \in DomainsGiven :
      Cardinality(Counts(Census(d))) <= 1 => SignalsFor(d) = {}

\* Three cells of three conflict events each, next to a domain that does
\* give a signal
C17_Witness ==
  /\ DetectReturned
  /\ Cardinality(Census("conflict")) = 3
  /\ Counts(Census("conflict")) = {3}
  /\ SignalsFor("health") # {}

\* C18: a domain whose located events lie in fewer than 2 distinct grid cells
\* gives no signal.
C18_FewerThanTwoCellsGiveNoSignal ==
  DetectReturned =>
    \A d \in DomainsGiven :
      Cardinality(Census(d)) < 2 => SignalsFor(d) = {}

\* Four located conflict events in one cell, spread over its two halves, and
\* four conflict events that cannot be placed
C18_Witness ==
  /\ DetectReturned
  /\ Cardinality(LocatedOf("conflict")) = 4
  /\ Cardinality(Census("conflict")) = 1
  /\ Cardinality({p \in DOMAIN call.arg : call.arg[p].domain = "conflict"}) = 8
  /\ Cardinality({call.arg[p].location.lat.deg : p \in LocatedOf("conflict")}) = 2

\* C19: every signal reports a cell that holds at least 3 events; its count
\* is the number of located events of its domain in that cell.
C19_SignalsCountAtLeastThree ==
  DetectReturned =>
    \A r \in Reported :
      /\ r.count >= 3
      /\ <<r.cell, r.count>> \in Census(r.domain)
      /\ r.events = r.count

\* Two conflict cells of 2 and 1 events: the cell of 2 lies one standard
\* deviation above the mean, the standard deviation is 1/2, and it is not
\* reported
C19_Witness ==
  /\ DetectReturned
  /\ Counts(Census("conflict")) = {1, 2}
  /\ Cardinality(Census("conflict")) = 2
  /\ RawAtLeast(Moments(Census("conflict")), 2, 1, 1)
  /\ StddevAtLeastHalf(Moments(Census("conflict")))
  /\ SignalsFor("conflict") = {}

\* The claim for one domain, given its census, its moments and its signals
ReportedAsClaimed(census, m, signals) ==
  /\ \A e \in census :
       LET here == {r \in signals : r.cell = e[1]}
       IN  /\ here # {} <=> (e[2] >= 3 /\ RawAtLeast(m, e[2], 1, 1))
           /\ Cardinality(here) <= 1
           /\ \A r \in here :
                /\ r.severity = "critical" <=> RawAtLeast(m, e[2], 5, 2)
                /\ r.severity = "significant" <=>
                     (RawAtLeast(m, e[2], 3, 2) /\ ~RawAtLeast(m, e[2], 5, 2))
                /\ r.severity = "elevated" <=>
                     (RawAtLeast(m, e[2], 1, 1) /\ ~RawAtLeast(m, e[2], 3, 2))
  /\ \A r \in signals : \E e \in census : e[1] = r.cell

C20_WitnessCritical ==
  /\ DetectReturned
  /\ \E p \in SignalsFor("conflict") :
       call.value[p].severity = "critical" /\ call.value[p].count = 3

C28_WitnessTransport ==
  /\ pc = "done"
  /\ Len(Requests) = 3
  /\ trace[Len(trace)] = Failed(MODEL_CASCADE[3])
  /\ result = LocalResult

-----------------------------------------------------------------------------
(* Claims about the events the detector counts *)

\* The event at place p of the argument has a latitude and a longitude,
\* zero or not
HasBoth(p) ==
  /\ ~call.arg[p].location.missing
  /\ call.arg[p].location.lat.def
  /\ call.arg[p].location.lng.def

\* The places of the argument whose event is among the events of signal s
PlacesIn(s) ==
  {p \in DOMAIN call.arg : \E q \in DOMAIN s.events : s.events[q] = call.arg[p]}

\* The events of domain d that have both coordinates and lie in the square c
InSquare(d, c) ==
  {p \in DOMAIN call.arg : call.arg[p].domain = d /\ HasBoth(p) /\ GridCell(p) = c}

\* C21: an event is skipped exactly when it lacks a latitude or a longitude.
\* Every event that has both, a coordinate equal to 0 included, is counted
\* in the cell of its domain it lies in and in no other, so that a reported
\* cell counts every such event of its square; an event lacking either
\* appears in no signal.
C21_SkippedIffCoordinateMissing ==
  DetectReturned =>
    \A q \in DOMAIN call.value :
      LET s == call.value[q]
      IN  /\ \A p \in InSquare(s.domain, CellOfSignal(s)) : p \in PlacesIn(s)
          /\ s.count = Cardinality(InSquare(s.domain, CellOfSignal(s)))
          /\ \A p \in PlacesIn(s) :
               /\ HasBoth(p)
               /\ \A r \in DOMAIN call.value : p \in PlacesIn(call.value[r]) => r = q

\* No cell of any domain has a z-score of 1.0 or more
NoCellClears ==
  \A d \in DomainsGiven :
    \A e \in Census(d) : ~RawAtLeast(Moments(Census(d)), e[2], 1, 1)

\* C22: detectAnomalies never raises: whatever the list (empty, events with
\* no location or no coordinates, a single cell, equal counts, sparse
\* cells) the call returns a list, and the list is empty whenever no cell
\* has a z-score of at least 1.0.
C22_NeverRaises ==
  call.op = "detectAnomalies" =>
    /\ ~call.threw
    /\ call.returned =>
         /\ DOMAIN call.value = 1..Len(call.value)
         /\ NoCellClears => call.value = <<>>

\* Two cells of 2 and 1 located events next to an event without a location
\* and one without coordinates: the cell of 2 has z = 1.0 and too few events
C22_Witness ==
  /\ DetectReturned
  /\ \E p \in DOMAIN call.arg : call.arg[p].location.missing
  /\ \E p \in DOMAIN call.arg :
       ~call.arg[p].location.missing /\ ~call.arg[p].location.lat.def
  /\ Counts(Census("conflict")) = {1, 2}
  /\ Cardinality(Census("conflict")) = 2
  /\ call.value = <<>>

\* The empty list
C22_WitnessEmpty ==
  /\ DetectReturned
  /\ call.arg = <<>>
  /\ call.value = <<>>

\* Three cells of one event each
C22_WitnessNoneClears ==
  /\ DetectReturned
  /\ NoCellClears
  /\ Cardinality(Census("conflict")) = 3
  /\ call.value = <<>>

-----------------------------------------------------------------------------
(* Claims about the Welford pass *)

RECURSIVE SumOfCountList(_)
\* The sum of a list of counts
SumOfCountList(counts) ==
  IF counts = <<>> THEN 0 ELSE Head(counts) + SumOfCountList(Tail(counts))

RECURSIVE SquaredDeviations(_, _, _)
\* n * n times the sum of the squared deviations of the counts from sum / n
SquaredDeviations(counts, n, sum) ==
  IF counts = <<>> THEN 0
  ELSE (n * Head(counts) - sum) * (n * Head(counts) - sum)
         + SquaredDeviations(Tail(counts), n, sum)

WelfordReturned == call.op = "welford" /\ call.returned

\* C23: for every non-empty list of counts the Welford pass yields
\* mean = sum / n and stddev squared = (sum of the squared deviations from
\* the mean) / n, both sums being the same in whatever order the counts
\* come; for the counts 1, 1, 1, 1, 10 the mean is 2.8 and the stddev 3.6,
\* and the detector reports the cell of 10 alone, with z-score 2.0 and tier
\* significant.
C23_WelfordGivesPopulationMoments ==
  /\ WelfordReturned =>
       LET n   == Len(call.arg)
           sum == SumOfCountList(call.arg)
       IN  /\ call.value.mean[1] * n = sum * call.value.mean[2]
           /\ call.value.stddev.square[1] * n * n * n =
                SquaredDeviations(call.arg, n, sum) * call.value.stddev.square[2]
           /\ call.value.mean[2] > 0
           /\ call.value.stddev.square[2] > 0
  /\ (WelfordReturned /\ SumOfCountList(call.arg) = 14 /\ Len(call.arg) = 5
        /\ \E p \in DOMAIN call.arg : call.arg[p] = 10) =>
       /\ call.value.mean[1] * 10 = 28 * call.value.mean[2]
       /\ call.value.stddev.square[1] * 100 = 36 * 36 * call.value.stddev.square[2]
  /\ (DetectReturned /\ Counts(Census("conflict")) = {1, 10}
        /\ Cardinality(Census("conflict")) = 5) =>
       /\ Len(call.value) = 1
       /\ call.value[1].count = 10
       /\ ~call.value[1].zscore.nan
       /\ call.value[1].zscore.tenths = 20
       /\ call.value[1].severity = "significant"

\* The counts 1, 1, 1, 1, 10 in that order
C23_Witness ==
  /\ WelfordReturned
  /\ call.arg = <<1, 1, 1, 1, 10>>
  /\ call.value.mean = <<14, 5>>
  /\ call.value.stddev.square = <<324, 25>>

\* The same counts with the 10 first
C23_WitnessReordered ==
  /\ WelfordReturned
  /\ call.arg = <<10, 1, 1, 1, 1>>
  /\ call.value.mean = <<14, 5>>
  /\ call.value.stddev.square = <<324, 25>>

\* The detector given five cells of 1, 1, 1, 1 and 10 events
C23_WitnessSignal ==
  /\ DetectReturned
  /\ Cardinality(Census("conflict")) = 5
  /\ Counts(Census("conflict")) = {1, 10}
  /\ Len(call.value) = 1

\* A single count: the mean is the count and the stddev 0
C23_WitnessSingle ==
  /\ WelfordReturned
  /\ call.arg = <<3>>
  /\ call.value.mean = <<3, 1>>
  /\ call.value.stddev.square = <<0, 1>>

-----------------------------------------------------------------------------
(* Claims about the signals *)

\* The region string of an event, or its country string when it has no
\* region; "" when it has neither
PlaceName(e) == IF e.location.region # "" THEN e.location.region ELSE e.location.country

Named(evs, name) == {p \in DOMAIN evs : PlaceName(evs[p]) = name}

FirstNamed(evs, name) == CHOOSE p \in Named(evs, name) : \A q \in Named(evs, name) : p <= q

\* name is the most frequent place name of evs, the first met among the most
\* frequent ones
MostFrequentName(evs, name) ==
  /\ name # ""
  /\ Named(evs, name) # {}
  /\ \A q \in DOMAIN evs :
       LET other == PlaceName(evs[q])
       IN  (other # "" /\ other # name) =>
             \/ Cardinality(Named(evs, other)) < Cardinality(Named(evs, name))
             \/ /\ Cardinality(Named(evs, other)) = Cardinality(Named(evs, name))
                /\ FirstNamed(evs, name) < FirstNamed(evs, other)

\* The centre of a 10-degree square, in degrees
CentreOf(c) == <<c[1] + 5, c[2] + 5>>

\* "12°N 34°E": absolute whole degrees with N or S and E or W
CardinalLabel(lat, lng) ==
  << Num(IF lat < 0 THEN -lat ELSE lat), Lit(IF lat >= 0 THEN "°N" ELSE "°S"), Lit(" "),
     Num(IF lng < 0 THEN -lng ELSE lng), Lit(IF lng >= 0 THEN "°E" ELSE "°W") >>

\* C24: the region label of a signal is the most frequent non-empty
\* region-or-country string of its cell's events, the first met among equally
\* frequent ones; when no event of the cell has one, it is the cardinal
\* label of the cell's centre.
C24_RegionLabelMostFrequentOrCardinal ==
  DetectReturned =>
    \A q \in DOMAIN call.value :
      LET s == call.value[q]
          centre == CentreOf(CellOfSignal(s))
      IN  IF \E p \in DOMAIN s.events : PlaceName(s.events[p]) # ""
          THEN /\ Len(s.regionLabel) = 1
               /\ MostFrequentName(s.events, s.regionLabel[1].s)
          ELSE s.regionLabel = CardinalLabel(centre[1], centre[2])

\* A health cell of four events named Mali, Sahel, Sahel, Mali: Mali, met
\* first, is the label
C24_Witness ==
  /\ DetectReturned
  /\ \E q \in DOMAIN call.value :
       /\ call.value[q].domain = "health"
       /\ call.value[q].count = 4
       /\ Cardinality(Named(call.value[q].events, "Mali")) = 2
       /\ Cardinality(Named(call.value[q].events, "Sahel")) = 2
       /\ call.value[q].regionLabel = <<Lit("Mali")>>

\* A health cell where Sahel outnumbers Mali, met first
C24_WitnessMajority ==
  /\ DetectReturned
  /\ \E q \in DOMAIN call.value :
       /\ PlaceName(call.value[q].events[1]) = "Mali"
       /\ call.value[q].regionLabel = <<Lit("Sahel")>>

\* A conflict cell without names, south-west of the origin
C24_WitnessCardinal ==
  /\ DetectReturned
  /\ \E q \in DOMAIN call.value :
       call.value[q].regionLabel = <<Num(25), Lit("°S"), Lit(" "), Num(15), Lit("°W")>>

\* A conflict cell without names, north-east of the origin
C24_WitnessNorthEast ==
  /\ DetectReturned
  /\ \E q \in DOMAIN call.value :
       call.value[q].regionLabel = <<Num(5), Lit("°N"), Lit(" "), Num(15), Lit("°E")>>

\* C25: the id of a signal is its domain joined with its cell key and no two
\* signals share an id; the events of a signal are the events of the
\* argument that are of its domain and whose coordinates fall in its cell
\* (floor(lat / 10) * 10 its row, floor(lng / 10) * 10 its column), in the
\* order of the argument; its count is their number; the argument is left
\* as it was.
C25_SignalHoldsItsCellsEvents ==
  DetectReturned =>
    /\ \A q \in DOMAIN call.value :
         LET s   == call.value[q]
             row == s.lat[1] \div s.lat[2] - 5
             col == s.lng[1] \div s.lng[2] - 5
             Inside(e) ==
               /\ e.domain = s.domain
               /\ ~e.location.missing
               /\ e.location.lat.def /\ (e.location.lat.deg \div 10) * 10 = row
               /\ e.location.lng.def /\ (e.location.lng.deg \div 10) * 10 = col
         IN  /\ s.id = <<Lit(s.domain), Lit(":"), Num(row), Lit(":"), Num(col)>>
             /\ s.events = SelectSeq(call.arg, Inside)
             /\ s.count = Len(SelectSeq(call.arg, Inside))
             /\ \A r \in DOMAIN call.value : call.value[r].id = s.id => r = q
    /\ call.after = call.arg

\* C26: the tier of a signal agrees with its z-score as the signal reports
\* it (rounded to one decimal): critical exactly when that z-score is at
\* least 2.5, significant exactly when it is at least 1.5 and below 2.5,
\* elevated exactly when it is at least 1.0 and below 1.5.
C26_TierAgreesWithReportedZscore ==
  DetectReturned =>
    \A q \in DOMAIN call.value :
      LET s == call.value[q]
      IN  /\ ~s.zscore.nan
          /\ s.severity = "critical" <=> s.zscore.tenths >= 25
          /\ s.severity = "significant" <=> (s.zscore.tenths >= 15 /\ s.zscore.tenths < 25)
          /\ s.severity = "elevated" <=> (s.zscore.tenths >= 10 /\ s.zscore.tenths < 15)

\* Every event of the argument has a latitude between -90 and 90 and a
\* longitude between -180 and 180
AllCoordinatesValid ==
  \A p \in DOMAIN call.arg :
    /\ HasBoth(p)
    /\ call.arg[p].location.lat.deg >= -90 /\ call.arg[p].location.lat.deg <= 90
    /\ call.arg[p].location.lng.deg >= -180 /\ call.arg[p].location.lng.deg <= 180

\* C27: when every event of the argument has valid coordinates, events at
\* latitude 90 or longitude 180 included, the centroid of every signal is a
\* valid coordinate pair: its latitude lies between -90 and 90 and its
\* longitude between -180 and 180.
C27_CentroidIsValidCoordinate ==
  (DetectReturned /\ AllCoordinatesValid) =>
    \A q \in DOMAIN call.value :
      LET s == call.value[q]
      IN  /\ s.lat[1] >= -90 * s.lat[2] /\ s.lat[1] <= 90 * s.lat[2]
          /\ s.lng[1] >= -180 * s.lng[2] /\ s.lng[1] <= 180 * s.lng[2]

-----------------------------------------------------------------------------
(* Claims about the components *)

\* C29: once a click is accepted, every further click on Generate,
\* Regenerate or Refresh is ignored until the generation in flight has
\* finished and 30 seconds have passed; the cooldown counts down from 30 by
\* one per second, stops at 0 and is never negative; at most one
\* generateBrief call is in flight at any time.
C29_OneGenerationPerCooldown ==
  /\ [](generating <= 1)
  /\ [](IntelBrief.cooldown >= 0 /\ IntelBrief.cooldown <= 30 /\ intervals <= 1)
  /\ [][generating' > generating =>
          /\ generating = 0
          /\ elapsed = -1 \/ elapsed >= 30
          /\ IntelBrief'.cooldown = 30]_vars
  /\ [][(IntelBrief'.cooldown # IntelBrief.cooldown /\ generating' <= generating) =>
          /\ IntelBrief'.cooldown = IntelBrief.cooldown - 1
          /\ elapsed' = elapsed + 1]_vars
  /\ [][(lastClick' = "accepted" /\ lastClick # "accepted") => generating' > generating]_vars

\* The cooldown is over and the generation still in flight: a click is ignored
C29_Witness ==
  /\ lastClick = "ignored"
  /\ generating = 1
  /\ IntelBrief.cooldown = 0
  /\ elapsed >= 30

\* A second generation, accepted after the first one finished and the
\* cooldown ran out
C29_WitnessRegenerate ==
  /\ lastClick = "accepted"
  /\ IntelBrief.brief
  /\ generating = 1
  /\ elapsed = 0

\* A click during the cooldown, the generation finished
C29_WitnessCooldown ==
  /\ lastClick = "ignored"
  /\ generating = 0
  /\ IntelBrief.cooldown = 12

\* The adapter at place k of results r succeeded
Succeeded(r, k) == r[k].status = "fulfilled"

\* The event at place j of the list of adapter k is the first of its id
\* among the lists of the adapters that succeeded
FirstOfItsId(r, k, j) ==
  \A k2 \in DOMAIN r :
    Succeeded(r, k2) =>
      \A j2 \in DOMAIN r[k2].value :
        (r[k2].value[j2].id = r[k].value[j].id) => (k < k2 \/ (k = k2 /\ j <= j2))

\* C30: when a refresh finishes, the events displayed are the events of the
\* adapters that succeeded in it, each id once, by its first occurrence in
\* adapter order and then list order; an adapter that failed contributes none
\* and hides none of the others; every adapter named in the error list is
\* one that failed in the refresh; the loading flag is cleared.
C30_RefreshMergesAndNamesFailures ==
  [][loads' < loads =>
       /\ \A p, q \in DOMAIN App'.allEvents :
            App'.allEvents[p].id = App'.allEvents[q].id => p = q
       /\ \A k \in DOMAIN results' :
            Succeeded(results', k) =>
              \A j \in DOMAIN results'[k].value :
                FirstOfItsId(results', k, j) =>
                  \E p \in DOMAIN App'.allEvents : App'.allEvents[p] = results'[k].value[j]
       /\ \A p \in DOMAIN App'.allEvents :
            \E k \in DOMAIN results' :
              /\ Succeeded(results', k)
              /\ \E j \in DOMAIN results'[k].value : App'.allEvents[p] = results'[k].value[j]
       /\ \A q \in DOMAIN App'.errors :
            \E k \in DOMAIN results' :
              /\ ADAPTERS[k].label = App'.errors[q]
              /\ ~Succeeded(results', k)
       /\ App'.loading = FALSE]_vars

=============================================================================
